---- MODULE Spec2Model ----
(***************************************************************************)
(* Shape, structure and state model of pyvision/models/ImageNet/MENet.py:  *)
(* the operator constructors, _MEModule, _InitBlock, MENet and menet.      *)
(* A tensor is modelled by its shape (n, c, h, w), the storage it lives in *)
(* and the state its value was computed from; an operator by its           *)
(* configuration and, for batch normalisation, its update counter.         *)
(***************************************************************************)
EXTENDS Integers, Sequences, FiniteSets, TLC

\* ---------------------------------------------------------------- bounds
MaxStages == 4
MaxLayers == 1
MaxPasses == 2
MaxSteps == 1

\* ------------------------------------------------- configuration domains
Widths == {9, 16, 32, 64}
InitCs == {3, 4}
GroupVals == {1, 2}
SideVals == {5}

NumClasses == 1000
PoolKernel == 7
ImageChannels == 3

Min(a, b) == IF a < b THEN a ELSE b
Max(a, b) == IF a > b THEN a ELSE b

\* --------------------------------------------------- operator constructors
\* nn.Conv2d(in_c, out_c, k, stride, padding, groups, bias=False)
Conv2d(in_c, out_c, k, stride, padding, groups) ==
    [in_c |-> in_c, out_c |-> out_c, k |-> k, stride |-> stride,
     padding |-> padding, groups |-> groups]

depthwise_conv(c, stride) == Conv2d(c, c, 3, stride, 1, c)

group_conv(in_c, out_c, groups) == Conv2d(in_c, out_c, 1, 1, 0, groups)

conv1x1(in_c, out_c) == Conv2d(in_c, out_c, 1, 1, 0, 1)

conv3x3(in_c, out_c, stride) == Conv2d(in_c, out_c, 3, stride, 1, 1)

\* The framework rejects a convolution whose channel counts are not positive
\* multiples of its group count.
ConvValid(cv) ==
    /\ cv.in_c > 0
    /\ cv.out_c > 0
    /\ cv.groups > 0
    /\ cv.in_c % cv.groups = 0
    /\ cv.out_c % cv.groups = 0

\* nn.BatchNorm2d(c): c features; stat is the version of its running
\* statistics, which changes whenever they are updated
BatchNorm2d(c) == [nf |-> c, stat |-> 0]

\* pooling operators: kernel, stride, padding
Pool2d(k, stride, padding) == [k |-> k, stride |-> stride, padding |-> padding]

NoPool == Pool2d(0, 0, 0)

\* ------------------------------------------------------ _MEModule.__init__
BNNames == <<"bn_compress", "s_bn_merge", "bn_depthwise", "s_bn_conv",
             "s_bn_evolve", "bn_expand">>

\* variant: the compress convolution always takes the configured groups
CompressGroups_Always(downsample, groups, ignore_group) == groups

CompressGroups(downsample, groups, ignore_group) ==
    IF downsample /\ ignore_group THEN 1 ELSE groups

\* variant: line 38 missing, the residual branch keeps the full width
ResidualOut_NoReduce(in_c, out_c, downsample) == out_c

ResidualOut(in_c, out_c, downsample) ==
    IF downsample THEN out_c - in_c ELSE out_c

\* stride of the depthwise convolution (lines 45, 61) and of the 3x3 fusion
\* convolution (lines 53, 68)
DepthwiseStride(downsample) == IF downsample THEN 2 ELSE 1

\* variant: the fusion convolution never strides
FusionStride_One(downsample) == 1

FusionStride(downsample) == IF downsample THEN 2 ELSE 1

MEModule(in_c, out_c, side_c, downsample, groups, ignore_group) ==
    LET bott == out_c \div 4
        res_c == ResidualOut(in_c, out_c, downsample)
    IN  [kind |-> "me",
         args |-> [in_c |-> in_c, out_c |-> out_c, side_c |-> side_c,
                   ignore_group |-> ignore_group],
         downsample |-> downsample,
         groups |-> groups,
         compress |-> group_conv(in_c, bott,
                         CompressGroups(downsample, groups, ignore_group)),
         depthwise |-> depthwise_conv(bott, DepthwiseStride(downsample)),
         expand |-> group_conv(bott, res_c, groups),
         pool |-> IF downsample THEN Pool2d(3, 2, 1) ELSE NoPool,
         s_merge |-> conv1x1(bott, side_c),
         s_conv |-> conv3x3(side_c, side_c, FusionStride(downsample)),
         s_evolve |-> conv1x1(side_c, bott),
         bn |-> [b \in {BNNames[q] : q \in 1..Len(BNNames)} |->
                   CASE b = "bn_compress" -> BatchNorm2d(bott)
                     [] b = "bn_depthwise" -> BatchNorm2d(bott)
                     [] b = "bn_expand" -> BatchNorm2d(res_c)
                     [] b = "s_bn_merge" -> BatchNorm2d(side_c)
                     [] b = "s_bn_conv" -> BatchNorm2d(side_c)
                     [] OTHER -> BatchNorm2d(bott)]]

\* The first operator of the module whose construction the framework
\* rejects, in the order the constructor creates them ("" when none).
MEModuleError(m) ==
    IF ~ConvValid(m.compress) THEN "compress"
    ELSE IF ~ConvValid(m.depthwise) THEN "depthwise"
    ELSE IF ~ConvValid(m.expand) THEN "expand"
    ELSE IF ~ConvValid(m.s_merge) THEN "s_merge"
    ELSE IF ~ConvValid(m.s_conv) THEN "s_conv"
    ELSE IF ~ConvValid(m.s_evolve) THEN "s_evolve"
    ELSE ""

\* ------------------------------------------------------ _InitBlock.__init__
\* variant: the stem convolution does not stride
InitBlock_Stride1(init_c) ==
    [kind |-> "init",
     conv |-> conv3x3(ImageChannels, init_c, 1),
     bn |-> [b \in {"bn"} |-> BatchNorm2d(init_c)],
     pool |-> Pool2d(3, 2, 1)]

InitBlock(init_c) ==
    [kind |-> "init",
     conv |-> conv3x3(ImageChannels, init_c, 2),
     bn |-> [b \in {"bn"} |-> BatchNorm2d(init_c)],
     pool |-> Pool2d(3, 2, 1)]

\* ------------------------------------------------------- tensor operators
\* A tensor: its shape and the storage holding its elements.  Within one
\* forward call storage 0 is the call's argument and storage q > 0 is the
\* tensor allocated by statement q of the body.
Tensor(shape, st) == [shape |-> shape, st |-> st]

NoTensor == Tensor(<<>>, -1)

\* output extent of a sliding window (floor mode)
Window(size, k, stride, padding) == (size + 2 * padding - k) \div stride + 1

ConvShape(cv, s) ==
    <<s[1], cv.out_c, Window(s[3], cv.k, cv.stride, cv.padding),
      Window(s[4], cv.k, cv.stride, cv.padding)>>

ConvAccepts(cv, s) ==
    /\ Len(s) = 4
    /\ s[2] = cv.in_c
    /\ Window(s[3], cv.k, cv.stride, cv.padding) >= 1
    /\ Window(s[4], cv.k, cv.stride, cv.padding) >= 1

PoolShape(p, s) ==
    <<s[1], s[2], Window(s[3], p.k, p.stride, p.padding),
      Window(s[4], p.k, p.stride, p.padding)>>

PoolAccepts(p, s) ==
    /\ Len(s) = 4
    /\ Window(s[3], p.k, p.stride, p.padding) >= 1
    /\ Window(s[4], p.k, p.stride, p.padding) >= 1

\* batch normalisation takes a tensor of its own width and, in training
\* mode, more than one value per channel
BNAccepts(b, s, training) ==
    /\ Len(s) = 4
    /\ s[2] = b.nf
    /\ training => s[1] * s[3] * s[4] > 1

\* an in-place binary operation: the right operand is broadcast to the left
Broadcasts(r, t) ==
    /\ Len(r) = Len(t)
    /\ \A d \in 1..Len(t) : r[d] = t[d] \/ r[d] = 1

CatAccepts(a, b) ==
    /\ Len(a) = 4
    /\ Len(b) = 4
    /\ a[1] = b[1]
    /\ a[3] = b[3]
    /\ a[4] = b[4]

\* channel_shuffle(x, groups) of .common: splits the channels into groups
ShuffleAccepts(s, groups) == Len(s) = 4 /\ s[2] % groups = 0

\* x.view(x.size(0), -1)
ViewShape(s) == <<s[1], s[2] * s[3] * s[4]>>

LinearAccepts(lin, s) == Len(s) = 2 /\ s[2] = lin.in_f

\* ------------------------------------------------------ forward bodies
\* A body is the list of the statements of a forward method: d is the
\* variable assigned, op the operation, f the operator attribute used, a and
\* b the argument variables.
Stmt(d, op, f, a, b) == [d |-> d, op |-> op, f |-> f, a |-> a, b |-> b]

\* _MEModule.forward, lines 74-97
MEBodyHead ==
    << Stmt("identity", "alias", "", "x", ""),
       Stmt("x", "conv", "compress", "x", ""),
       Stmt("x", "bn", "bn_compress", "x", ""),
       Stmt("x", "relu_", "", "x", ""),
       Stmt("x", "shuffle", "", "x", ""),
       Stmt("y", "conv", "s_merge", "x", ""),
       Stmt("y", "bn", "s_bn_merge", "y", ""),
       Stmt("y", "relu_", "", "y", ""),
       Stmt("x", "conv", "depthwise", "x", ""),
       Stmt("x", "bn", "bn_depthwise", "x", ""),
       Stmt("y", "conv", "s_conv", "y", ""),
       Stmt("y", "bn", "s_bn_conv", "y", ""),
       Stmt("y", "relu_", "", "y", ""),
       Stmt("y", "conv", "s_evolve", "y", ""),
       Stmt("y", "bn", "s_bn_evolve", "y", ""),
       Stmt("y", "sigmoid", "", "y", ""),
       Stmt("x", "imul", "", "x", "y"),
       Stmt("x", "conv", "expand", "x", ""),
       Stmt("x", "bn", "bn_expand", "x", "") >>

\* lines 99-101
MEBodyDown ==
    << Stmt("identity", "pool", "pool", "identity", ""),
       Stmt("x", "cat", "", "x", "identity") >>

\* variant: the identity is concatenated in both branches
MEBodySame_Cat ==
    << Stmt("x", "cat", "", "x", "identity") >>

\* variant: identity += x; x = identity
MEBodySame_Swapped ==
    << Stmt("identity", "iadd", "", "identity", "x"),
       Stmt("x", "alias", "", "identity", "") >>

\* lines 102-103
MEBodySame ==
    << Stmt("x", "iadd", "", "x", "identity") >>

\* lines 104-105
MEBodyTail ==
    << Stmt("x", "relu_", "", "x", "") >>

MEBody(m) ==
    MEBodyHead \o (IF m.downsample THEN MEBodyDown ELSE MEBodySame)
               \o MEBodyTail

\* positions in the body of the statements the properties look at
AtDepthwiseBN == 10
AtSigmoid == 16
AtExpandBN == 19
AtPoolIdentity == 20

\* _InitBlock.forward, lines 116-120
InitBody ==
    << Stmt("x", "conv", "conv", "x", ""),
       Stmt("x", "bn", "bn", "x", ""),
       Stmt("x", "relu_", "", "x", ""),
       Stmt("x", "pool", "pool", "x", "") >>

\* MENet.forward after the features, lines 146-149
HeadBody ==
    << Stmt("x", "pool", "pool", "x", ""),
       Stmt("x", "view", "", "x", ""),
       Stmt("x", "linear", "classifier", "x", "") >>

\* ---------------------------------------------------------- interpreter
\* The state of a call: the local variables, the module's batch-norm
\* operators, the storages written in place, the shape each statement
\* produced, and the statement that raised ("" when none).
CallState(m, x) ==
    [env |-> [v \in {"x", "y", "identity"} |->
                 IF v = "x" THEN Tensor(x.shape, 0) ELSE NoTensor],
     bn |-> m.bn,
     written |-> {},
     trace |-> <<>>,
     err |-> ""]

StmtLabel(s) == IF s.f = "" THEN s.op ELSE s.f

\* variant: the statistics are updated whatever the mode
BNUpdate_Always(b, training) == [b EXCEPT !.stat = @ + 1]

\* a batch normalisation applied in training mode updates its statistics
BNUpdate(b, training) ==
    IF training THEN [b EXCEPT !.stat = @ + 1] ELSE b

\* does statement s accept its arguments
Accepts(s, m, c, training) ==
    LET a == c.env[s.a].shape
    IN  CASE s.op = "conv" -> ConvAccepts(m[s.f], a)
          [] s.op = "bn" -> BNAccepts(c.bn[s.f], a, training)
          [] s.op = "pool" -> PoolAccepts(m[s.f], a)
          [] s.op = "shuffle" -> ShuffleAccepts(a, m.groups)
          [] s.op \in {"imul", "iadd"} -> Broadcasts(c.env[s.b].shape, a)
          [] s.op = "cat" -> CatAccepts(a, c.env[s.b].shape)
          [] s.op = "linear" -> LinearAccepts(m[s.f], a)
          [] s.op = "view" -> Len(a) = 4
          [] OTHER -> TRUE

\* the tensor statement s (at position q) assigns to its variable
Result(s, q, m, c) ==
    LET t == c.env[s.a]
        a == t.shape
    IN  CASE s.op = "conv" -> Tensor(ConvShape(m[s.f], a), q)
          [] s.op = "pool" -> Tensor(PoolShape(m[s.f], a), q)
          [] s.op = "cat" ->
                Tensor(<<a[1], a[2] + c.env[s.b].shape[2], a[3], a[4]>>, q)
          [] s.op = "view" -> Tensor(ViewShape(a), t.st)
          [] s.op = "linear" -> Tensor(<<a[1], m[s.f].out_f>>, q)
          [] s.op \in {"bn", "shuffle", "sigmoid"} -> Tensor(a, q)
          [] OTHER -> t

InPlace(s) == s.op \in {"relu_", "imul", "iadd"}

Exec(s, q, m, c, training) ==
    IF ~Accepts(s, m, c, training)
    THEN [c EXCEPT !.err = StmtLabel(s)]
    ELSE [c EXCEPT
            !.env[s.d] = Result(s, q, m, c),
            !.written = IF InPlace(s) THEN @ \cup {c.env[s.a].st} ELSE @,
            !.bn = IF s.op = "bn"
                   THEN [@ EXCEPT ![s.f] = BNUpdate(@, training)] ELSE @,
            !.trace = Append(@, Result(s, q, m, c).shape)]

RECURSIVE RunFrom(_, _, _, _, _)
RunFrom(body, q, m, c, training) ==
    IF q > Len(body) \/ c.err # "" THEN c
    ELSE RunFrom(body, q + 1, m, Exec(body[q], q, m, c, training), training)

Run(body, m, x, training) == RunFrom(body, 1, m, CallState(m, x), training)

\* ------------------------------------------------- floating-point elements
\* A binary floating-point format with MantBits bits of precision whose
\* smallest positive (subnormal) value is 2^(-MaxScale).  A value is m * 2^e,
\* kept with m odd (or m = 0, e = 0); results are rounded to nearest, ties to
\* even.
MantBits == 3
MaxScale == 6

RECURSIVE Norm(_, _)
Norm(m, e) ==
    IF m = 0 THEN [m |-> 0, e |-> 0]
    ELSE IF m % 2 = 0 THEN Norm(m \div 2, e + 1)
    ELSE [m |-> m, e |-> e]

Abs(n) == IF n < 0 THEN -n ELSE n

FAbs(a) == [a EXCEPT !.m = Abs(a.m)]

\* a <= b
FLe(a, b) ==
    LET lo == Min(a.e, b.e)
    IN  a.m * 2^(a.e - lo) <= b.m * 2^(b.e - lo)

FLt(a, b) == FLe(a, b) /\ a # b

FZero == Norm(0, 0)
FOne == Norm(1, 0)
FInt(n) == Norm(n, 0)

\* the e with 2^e <= num / den < 2^(e + 1)  (num > 0, den > 0)
RECURSIVE Log2Floor(_, _)
Log2Floor(num, den) ==
    IF num >= 2 * den THEN Log2Floor(num, 2 * den) + 1
    ELSE IF num < den THEN Log2Floor(2 * num, den) - 1
    ELSE 0

\* the float nearest to num / den (num >= 0, den > 0)
Round(num, den) ==
    IF num = 0 THEN FZero
    ELSE LET E == Log2Floor(num, den)
             q == Max(E - (MantBits - 1), -MaxScale)
             N == IF q >= 0 THEN num ELSE num * 2^(-q)
             D == IF q >= 0 THEN den * 2^q ELSE den
             fl == N \div D
             r == N % D
             m == IF 2 * r < D THEN fl
                  ELSE IF 2 * r > D THEN fl + 1
                  ELSE IF fl % 2 = 0 THEN fl ELSE fl + 1
         IN  Norm(m, q)

\* the floats of the format between 0 and 1
UnitFloats ==
    {f \in {Norm(m, e) : m \in 0..(2^MantBits), e \in (-MaxScale)..0} :
        FLe(f, FOne)}

\* variant: line 93 missing, the gate is the pre-activation itself
Sigmoid_Missing(y) == {FInt(y)}

\* F.sigmoid (line 93) at the integer y: 1 / (1 + exp(-y)) lies between
\* 1 / (1 + 2^(-y)) and 1 / (1 + 3^(-y)), since 2 < e < 3; the element
\* returned is a float between the roundings of the two bounds.
SigmoidLow(y) ==
    IF y >= 0 THEN Round(2^y, 1 + 2^y) ELSE Round(1, 1 + 3^(-y))

SigmoidHigh(y) ==
    IF y >= 0 THEN Round(3^y, 1 + 3^y) ELSE Round(1, 1 + 2^(-y))

Sigmoid(y) ==
    {f \in UnitFloats : FLe(SigmoidLow(y), f) /\ FLe(f, SigmoidHigh(y))}

\* x *= y (line 94) on one element: the rounded product
InPlaceMul(a, b) ==
    LET e == a.e + b.e
        mag == Round(Abs(a.m * b.m) * 2^Max(e, 0), 2^Max(-e, 0))
    IN  IF (a.m < 0) # (b.m < 0) THEN [mag EXCEPT !.m = -@] ELSE mag

\* the pre-activations of the gate and the residual elements followed
PreActs == (-(MantBits + MaxScale))..(MantBits + MaxScale)

Residuals ==
    {Norm(m, e) : m \in (1 - 2^MantBits)..(2^MantBits - 1),
                  e \in {-MaxScale, -1, 2}}

NoElem == [at |-> "", pre |-> 0, res |-> FZero, gate |-> FZero, prod |-> FZero]

\* ------------------------------------------------------------------ state
VARIABLES
    cfg,        \* the model_config handed to menet
    pc,         \* where the program is: "new", "stage", "layers", "built",
                \* "failed", "features", "done", "raised"
    features,   \* MENet.features: the ordered, named container of modules
    in_c,       \* the constructor's running channel count
    i,          \* the constructor's stage index (0-based)
    l,          \* the constructor's inner loop index `_`
    out_c,      \* the constructor's loop variable out_c
    pool,       \* MENet.pool
    classifier, \* MENet.classifier: [in_f, out_f]
    err,        \* the operator that raised last, and in which module
    added,      \* the names passed to add_module, in call order
    training,   \* nn.Module.training of the network and its submodules
    params,     \* version of the learnable parameters
    x,          \* the tensor between two modules: its shape and what its
                \* value was computed from
    k,          \* position in features of the next module to apply
    passes,     \* number of forward calls made
    cur,        \* the forward call in progress, as it started
    applied,    \* names of the modules applied by this call, in order
    call,       \* the last submodule call: module, argument shape, shapes
                \* produced and storages written
    last,       \* the last forward call that returned
    prev,       \* the forward call that returned before it
    elem        \* one element followed through lines 93-94: the gate's
                \* pre-activation, the residual element, the gate, the product

vars == <<cfg, pc, features, in_c, i, l, out_c, pool, classifier, err, added,
          training, params, x, k, passes, cur, applied, call, last, prev,
          elem>>

buildVars == <<in_c, i, l, out_c, pool, classifier, added, elem>>
runVars == <<x, k, passes, cur, applied, call, last, prev, elem>>
netVars == <<cfg, pc, features, in_c, i, l, out_c, pool, classifier, err,
             added, training, params, x, k, passes, cur, applied, call, last,
             prev>>

\* ---------------------------------------------------------- configuration
SeqsUpTo(S, n) == UNION {[1..kk -> S] : kk \in 0..n}

\* zip(block_channels, block_layers, side_channels) stops at the shortest
NumStages(c) ==
    Min(Len(c.block_channels), Min(Len(c.block_layers), Len(c.side_channels)))

\* Configurations: the stage widths increase from stage to stage;
\* side_channels is given for MaxStages stages whatever the number of stages.
Configs ==
    {c \in [block_channels : SeqsUpTo(Widths, MaxStages),
            block_layers : SeqsUpTo(0..MaxLayers, MaxStages),
            side_channels : [1..MaxStages -> SideVals],
            init_c : InitCs,
            groups : GroupVals] :
        /\ Len(c.block_layers) = Len(c.block_channels)
        /\ \A q \in 2..Len(c.block_channels) :
              c.block_channels[q] > c.block_channels[q - 1]}

\* the configurations followed over several forward calls
RunWidths == <<16, 32, 64>>

RunConfigs ==
    {c \in Configs :
        /\ c.init_c = 4
        /\ c.groups = 2
        /\ Len(c.block_channels) <= Len(RunWidths)
        /\ \A q \in 1..Len(c.block_channels) :
              /\ c.block_channels[q] = RunWidths[q]
              /\ c.block_layers[q] = (IF q = 1 THEN 1 ELSE 0)}

BatchSizes == {1, 2}
ImageSizes == {1, 224}

\* square inputs of either batch size, and one that is a single column
Inputs ==
    {<<n, ImageChannels, h, h>> : n \in BatchSizes, h \in ImageSizes}
       \cup {<<2, ImageChannels, 224, 1>>}

\* ----------------------------------------------------- nn.Module.add_module
StageName(a, b) == "stage_" \o ToString(a) \o "_" \o ToString(b)

HasName(fs, name) == \E q \in 1..Len(fs) : fs[q].name = name

\* _modules[name] = module: a new name is appended, an existing name keeps
\* its position and gets the new module.
add_module(fs, name, m) ==
    IF HasName(fs, name)
    THEN [q \in 1..Len(fs) |->
            IF fs[q].name = name THEN [name |-> name, mod |-> m] ELSE fs[q]]
    ELSE Append(fs, [name |-> name, mod |-> m])

\* ------------------------------------------------------- views of the state
\* the running statistics of every batch normalisation of the network
Stats(fs) ==
    [q \in 1..Len(fs) |->
        [b \in DOMAIN fs[q].mod.bn |-> fs[q].mod.bn[b].stat]]

\* the modules without their running statistics: names, order, operators
Structure(fs) ==
    [q \in 1..Len(fs) |->
        [name |-> fs[q].name,
         mod |-> [fs[q].mod EXCEPT
                    !.bn = [b \in DOMAIN fs[q].mod.bn |-> fs[q].mod.bn[b].nf]]]]

NoErr == [at |-> "", op |-> ""]
NoCall == [at |-> "", arg |-> <<>>, trace |-> <<>>, written |-> {}]
NoPass == [n |-> 0, input |-> <<>>, training |-> FALSE, params |-> 0,
           stats |-> <<>>, out |-> <<>>, value |-> <<>>,
           paramsEnd |-> 0, statsEnd |-> <<>>]

\* ----------------------------------------------------------- MENet.__init__
NetNew ==
    /\ pc = "new"
    /\ features = <<>>
    /\ in_c = 0
    /\ i = 0
    /\ l = 0
    /\ out_c = 0
    /\ pool = NoPool
    /\ classifier = [in_f |-> 0, out_f |-> 0]
    /\ err = NoErr
    /\ added = <<>>
    /\ training = TRUE
    /\ params = 0
    /\ x = [shape |-> <<>>, value |-> <<>>]
    /\ k = 0
    /\ passes = 0
    /\ cur = NoPass
    /\ applied = <<>>
    /\ call = NoCall
    /\ last = NoPass
    /\ prev = NoPass

Init == cfg \in Configs /\ NetNew /\ elem = NoElem

InitRun == cfg \in RunConfigs /\ NetNew /\ elem = NoElem

\* lines 126-129: the container with the stem, in_c = init_c
MENetInit ==
    /\ pc = "new"
    /\ features' = add_module(<<>>, "init", InitBlock(cfg.init_c))
    /\ added' = <<"init">>
    /\ in_c' = cfg.init_c
    /\ i' = 0
    /\ pc' = "stage"
    /\ UNCHANGED <<cfg, l, out_c, pool, classifier, err, training, params>>
    /\ UNCHANGED runVars

\* the names and modules of lines 132-133 and 137-138, the update of line 140
DownName(si) == StageName(si + 1, 1)

DownModule(ic, oc, side_c, groups, si) ==
    MEModule(ic, oc, side_c, TRUE, groups, si = 0)

\* variant: the extra modules are numbered from 1
LayerName_Clash(si, li) == StageName(si + 1, li + 1)

LayerName(si, li) == StageName(si + 1, li + 2)

LayerModule(oc, side_c, groups) ==
    MEModule(oc, oc, side_c, FALSE, groups, FALSE)

\* variant: line 140 missing
NextInC_Stale(ic, oc) == ic

NextInC(ic, oc) == oc

\* lines 130-134: next triple of the zip, the stage's downsampling module
AddDownsample ==
    /\ pc = "stage"
    /\ i < NumStages(cfg)
    /\ LET oc == cfg.block_channels[i + 1]
           side_c == cfg.side_channels[i + 1]
           m == DownModule(in_c, oc, side_c, cfg.groups, i)
           name == DownName(i)
       IN  /\ out_c' = oc
           /\ IF MEModuleError(m) # ""
              THEN /\ pc' = "failed"
                   /\ err' = [at |-> name, op |-> MEModuleError(m)]
                   /\ UNCHANGED <<features, added, l>>
              ELSE /\ features' = add_module(features, name, m)
                   /\ added' = Append(added, name)
                   /\ l' = 0
                   /\ pc' = "layers"
                   /\ UNCHANGED err
    /\ UNCHANGED <<cfg, in_c, i, pool, classifier, training, params>>
    /\ UNCHANGED runVars

\* lines 135-139: one more module of the stage
AddLayer ==
    /\ pc = "layers"
    /\ l < cfg.block_layers[i + 1]
    /\ LET side_c == cfg.side_channels[i + 1]
           m == LayerModule(out_c, side_c, cfg.groups)
           name == LayerName(i, l)
       IN  IF MEModuleError(m) # ""
           THEN /\ pc' = "failed"
                /\ err' = [at |-> name, op |-> MEModuleError(m)]
                /\ UNCHANGED <<features, added, l>>
           ELSE /\ features' = add_module(features, name, m)
                /\ added' = Append(added, name)
                /\ l' = l + 1
                /\ UNCHANGED <<pc, err>>
    /\ UNCHANGED <<cfg, in_c, i, out_c, pool, classifier, training, params>>
    /\ UNCHANGED runVars

\* line 140: the stage is complete
EndStage ==
    /\ pc = "layers"
    /\ l >= cfg.block_layers[i + 1]
    /\ in_c' = NextInC(in_c, out_c)
    /\ i' = i + 1
    /\ pc' = "stage"
    /\ UNCHANGED <<cfg, features, l, out_c, pool, classifier, err, added,
                   training, params>>
    /\ UNCHANGED runVars

\* lines 141-142: pooling and classifier
Finish ==
    /\ pc = "stage"
    /\ i >= NumStages(cfg)
    /\ pool' = Pool2d(PoolKernel, PoolKernel, 0)
    /\ classifier' = [in_f |-> in_c, out_f |-> NumClasses]
    /\ pc' = "built"
    /\ UNCHANGED <<cfg, features, in_c, i, l, out_c, err, added,
                   training, params>>
    /\ UNCHANGED runVars

\* ------------------------------------------------------------ between calls
Idle == pc \in {"built", "done", "raised"}

\* nn.Module.train(mode) / eval(), inherited by MENet
SetTraining(mode) ==
    /\ Idle
    /\ training # mode
    /\ training' = mode
    /\ UNCHANGED <<cfg, pc, features, err, params>>
    /\ UNCHANGED buildVars
    /\ UNCHANGED runVars

\* the optimizer, outside the network, replaces the parameters
OptimizerStep ==
    /\ Idle
    /\ params < MaxSteps
    /\ params' = params + 1
    /\ UNCHANGED <<cfg, pc, features, err, training>>
    /\ UNCHANGED buildVars
    /\ UNCHANGED runVars

\* ------------------------------------------------------------ MENet.forward
\* what a module adds to the provenance of the value passing through it: the
\* parameters it used and, in inference mode, the running statistics it read
Used(m) ==
    [w |-> params,
     rs |-> IF training THEN <<>>
            ELSE [b \in DOMAIN m.bn |-> m.bn[b].stat]]

\* line 144: forward is called with an input tensor
ForwardStart(limit) ==
    /\ Idle
    /\ passes < limit
    /\ \E shape \in Inputs :
          /\ x' = [shape |-> shape, value |-> <<shape>>]
          /\ cur' = [NoPass EXCEPT !.n = passes + 1, !.input = shape,
                        !.training = training, !.params = params,
                        !.stats = Stats(features)]
    /\ k' = 1
    /\ passes' = passes + 1
    /\ applied' = <<>>
    /\ call' = NoCall
    /\ err' = NoErr
    /\ pc' = "features"
    /\ UNCHANGED <<cfg, features, training, params, last, prev>>
    /\ UNCHANGED buildVars

\* line 145, nn.Sequential: the next module of features is applied
Apply(body) ==
    \E m \in {features[k].mod} : \E c \in {Run(body, m, x, training)} :
        /\ features' = [features EXCEPT ![k].mod.bn = c.bn]
        /\ call' = [at |-> features[k].name, arg |-> x.shape,
                    trace |-> c.trace, written |-> c.written]
        /\ IF c.err # ""
           THEN /\ pc' = "raised"
                /\ err' = [at |-> features[k].name, op |-> c.err]
                /\ UNCHANGED <<x, k, applied>>
           ELSE /\ x' = [shape |-> c.env["x"].shape,
                         value |-> Append(x.value, Used(m))]
                /\ k' = k + 1
                /\ applied' = Append(applied, features[k].name)
                /\ UNCHANGED <<pc, err>>
        /\ UNCHANGED <<cfg, training, params, passes, cur, last, prev>>
        /\ UNCHANGED buildVars

\* _InitBlock.forward
InitBlockForward ==
    /\ pc = "features"
    /\ k <= Len(features)
    /\ features[k].mod.kind = "init"
    /\ Apply(InitBody)

\* _MEModule.forward
MEModuleForward ==
    /\ pc = "features"
    /\ k <= Len(features)
    /\ features[k].mod.kind = "me"
    /\ Apply(MEBody(features[k].mod))

\* lines 146-149: pooling, flattening, classifier
Classify ==
    /\ pc = "features"
    /\ k > Len(features)
    /\ \E m \in {[pool |-> pool, classifier |-> classifier, bn |-> <<>>,
                  groups |-> 1]} :
       \E c \in {Run(HeadBody, m, x, training)} :
           /\ call' = [at |-> "head", arg |-> x.shape,
                       trace |-> c.trace, written |-> c.written]
           /\ IF c.err # ""
              THEN /\ pc' = "raised"
                   /\ err' = [at |-> "head", op |-> c.err]
                   /\ UNCHANGED <<x, last, prev>>
              ELSE /\ x' = [shape |-> c.env["x"].shape,
                            value |-> Append(x.value, Used(m))]
                   /\ last' = [cur EXCEPT !.out = c.env["x"].shape,
                                 !.value = Append(x.value, Used(m)),
                                 !.paramsEnd = params,
                                 !.statsEnd = Stats(features)]
                   /\ prev' = last
                   /\ pc' = "done"
                   /\ UNCHANGED err
    /\ UNCHANGED <<cfg, features, training, params, k, passes, cur, applied>>
    /\ UNCHANGED buildVars

Build ==
    \/ MENetInit
    \/ AddDownsample
    \/ AddLayer
    \/ EndStage
    \/ Finish

Forward ==
    \/ InitBlockForward
    \/ MEModuleForward
    \/ Classify

Next ==
    \/ Build
    \/ \E mode \in BOOLEAN : SetTraining(mode)
    \/ ForwardStart(1)
    \/ Forward

Spec == Init /\ [][Next]_vars

NextRun ==
    \/ Build
    \/ \E mode \in BOOLEAN : SetTraining(mode)
    \/ OptimizerStep
    \/ ForwardStart(MaxPasses)
    \/ Forward

SpecRun == InitRun /\ [][NextRun]_vars

\* ------------------------------------------------------ lines 92-94, one element
\* an element of the tensor returned by s_bn_evolve and the element of the
\* tensor returned by bn_depthwise at the same position
InitGate ==
    /\ cfg \in RunConfigs
    /\ Len(cfg.block_channels) = Len(RunWidths)
    /\ NetNew
    /\ \E y \in PreActs, r \in Residuals :
          elem = [NoElem EXCEPT !.at = "s_bn_evolve", !.pre = y, !.res = r]

\* line 93: y = F.sigmoid(y)
GateSigmoid ==
    /\ elem.at = "s_bn_evolve"
    /\ \E f \in Sigmoid(elem.pre) :
          elem' = [elem EXCEPT !.at = "sigmoid", !.gate = f]
    /\ UNCHANGED netVars

\* line 94: x *= y
GateMul ==
    /\ elem.at = "sigmoid"
    /\ elem' = [elem EXCEPT !.at = "imul",
                            !.prod = InPlaceMul(elem.res, elem.gate)]
    /\ UNCHANGED netVars

NextGate ==
    \/ GateSigmoid
    \/ GateMul

SpecGate == InitGate /\ [][NextGate]_vars

\* ------------------------------------------------------------ properties
Built == pc \in {"built", "features", "done", "raised"}

StandardInput == <<1, ImageChannels, 224, 224>>

ModuleNamed(name) ==
    features[CHOOSE q \in 1..Len(features) : features[q].name = name].mod

Names(fs) == [q \in 1..Len(fs) |-> fs[q].name]

\* the last submodule call was made on an _MEModule and ran at least the
\* first n statements of its body
MECallReached(n) ==
    /\ HasName(features, call.at)
    /\ ModuleNamed(call.at).kind = "me"
    /\ Len(call.trace) >= n

MECallReturned ==
    /\ MECallReached(1)
    /\ Len(call.trace) = Len(MEBody(ModuleNamed(call.at)))

InChannels(m) == IF m.kind = "init" THEN m.conv.in_c ELSE m.compress.in_c

OutChannels(m) ==
    IF m.kind = "init" THEN m.conv.out_c
    ELSE IF m.downsample THEN m.expand.out_c + m.compress.in_c
    ELSE m.expand.out_c

\* C1 as stated: a forward call on a (1,3,224,224) input to a network built
\* from a configuration with 4 stages returns, and returns a tensor of shape
\* (1,1000).
C1_FourStagesShape ==
    (NumStages(cfg) = 4 /\ pc \in {"done", "raised"} /\ cur.input = StandardInput)
        => (pc = "done" /\ x.shape = <<1, NumClasses>>)

\* C1 amended: a forward call on a (1,3,224,224) input to a network built
\* from a configuration with 3 stages returns, and returns a tensor of shape
\* (1,1000).
C1_ThreeStagesShape ==
    (NumStages(cfg) = 3 /\ pc \in {"done", "raised"} /\ cur.input = StandardInput)
        => (pc = "done" /\ x.shape = <<1, NumClasses>>)

C1_Witness ==
    /\ NumStages(cfg) = 3
    /\ pc = "done"
    /\ cur.input = StandardInput
    /\ x.shape = <<1, NumClasses>>

\* C2: in every downsampling module with Cout > Cin the expand convolution
\* and bn_expand have Cout - Cin channels, and in its forward the residual
\* branch has Cout - Cin channels, the pooled identity Cin channels and the
\* returned tensor Cout channels.
C2_DownsampleChannels ==
    /\ \A q \in 1..Len(features) :
          LET m == features[q].mod
          IN  (m.kind = "me" /\ m.downsample /\ m.args.out_c > m.args.in_c)
                 => /\ m.expand.out_c = m.args.out_c - m.args.in_c
                    /\ m.bn["bn_expand"].nf = m.args.out_c - m.args.in_c
    /\ (MECallReached(AtPoolIdentity) /\ ModuleNamed(call.at).downsample)
          => LET m == ModuleNamed(call.at)
             IN  /\ call.trace[AtExpandBN][2] = m.args.out_c - m.args.in_c
                 /\ call.trace[AtPoolIdentity][2] = m.args.in_c
                 /\ MECallReturned
                 /\ call.trace[Len(call.trace)][2] = m.args.out_c

C2_Witness ==
    /\ MECallReturned
    /\ ModuleNamed(call.at).downsample
    /\ ModuleNamed(call.at).args.out_c > ModuleNamed(call.at).args.in_c
    /\ call.trace[Len(call.trace)][2] = ModuleNamed(call.at).args.out_c

\* the stage (1-based) a module name belongs to, 0 for the stem
StageOf(name) ==
    IF \E sg \in 1..MaxStages, j \in 1..(MaxLayers + 1) :
          name = StageName(sg, j)
    THEN CHOOSE sg \in 1..MaxStages :
            \E j \in 1..(MaxLayers + 1) : name = StageName(sg, j)
    ELSE 0

\* C3: every non-downsampling module the constructor creates takes, expands
\* to and returns the Cout of its stage.
C3_SameWidth ==
    /\ \A q \in 1..Len(features) :
          LET m == features[q].mod
              Cout == cfg.block_channels[StageOf(features[q].name)]
          IN  (m.kind = "me" /\ ~m.downsample)
                 => /\ StageOf(features[q].name) > 0
                    /\ m.compress.in_c = Cout
                    /\ m.expand.out_c = Cout
                    /\ m.bn["bn_expand"].nf = Cout
    /\ (MECallReached(AtExpandBN) /\ ~ModuleNamed(call.at).downsample)
          => LET Cout == cfg.block_channels[StageOf(call.at)]
             IN  /\ call.arg[2] = Cout
                 /\ call.trace[AtExpandBN][2] = Cout
                 /\ MECallReturned
                 /\ call.trace[Len(call.trace)][2] = Cout
                 /\ call.trace[Len(call.trace)] = call.arg

C3_Witness ==
    /\ MECallReturned
    /\ ~ModuleNamed(call.at).downsample
    /\ call.trace[Len(call.trace)] = call.arg
    /\ call.arg[2] = cfg.block_channels[StageOf(call.at)]

\* C4: each module takes the channel count the module before it returns;
\* the downsampling module of stage 1 takes init_c channels and that of
\* stage s + 1 takes block_channels[s]; the classifier takes the last
\* stage's block_channels; during forward the tensor handed to a module has
\* the channel count the module declares.
C4_ChannelChain ==
    /\ \A q \in 2..Len(features) :
          InChannels(features[q].mod) = OutChannels(features[q - 1].mod)
    /\ \A sg \in 1..MaxStages :
          HasName(features, StageName(sg, 1))
             => ModuleNamed(StageName(sg, 1)).compress.in_c =
                   (IF sg = 1 THEN cfg.init_c ELSE cfg.block_channels[sg - 1])
    /\ Built
          => /\ classifier.in_f =
                   (IF NumStages(cfg) = 0 THEN cfg.init_c
                    ELSE cfg.block_channels[NumStages(cfg)])
             /\ classifier.in_f = OutChannels(features[Len(features)].mod)
    /\ (pc = "features" /\ k <= Len(features))
          => x.shape[2] = InChannels(features[k].mod)

C4_Witness ==
    /\ pc = "features"
    /\ k > 1
    /\ k <= Len(features)
    /\ features[k].mod.kind = "me"
    /\ features[k].mod.downsample
    /\ StageOf(features[k].name) >= 2
    /\ x.shape[2] = cfg.block_channels[StageOf(features[k].name) - 1]

\* a convolution refused because a channel count is not a multiple of the
\* group count
NotDivisible(cv) ==
    /\ cv.in_c > 0
    /\ cv.out_c > 0
    /\ cv.in_c % cv.groups # 0 \/ cv.out_c % cv.groups # 0

FirstModule ==
    DownModule(cfg.init_c, cfg.block_channels[1], cfg.side_channels[1],
               cfg.groups, 0)

FirstFailed == pc = "failed" /\ err.at = StageName(1, 1)

\* C5 as stated: when groups does not divide init_c, neither the compress
\* nor the expand convolution of the first module is refused for a channel
\* count that is not a multiple of the group count.
C5_FirstModuleNeverRefused ==
    (FirstFailed /\ cfg.init_c % cfg.groups # 0)
        => /\ ~(err.op = "compress" /\ NotDivisible(FirstModule.compress))
           /\ ~(err.op = "expand" /\ NotDivisible(FirstModule.expand))

\* C5 amended: when groups does not divide init_c, the compress convolution
\* of the first module has group count 1 and is never refused; the module is
\* built exactly when groups divides both its bottleneck width and
\* block_channels[1] - init_c, the channel counts of its expand convolution.
C5_CompressNeverRefused ==
    /\ (FirstFailed /\ cfg.init_c % cfg.groups # 0)
          => /\ err.op # "compress"
             /\ FirstModule.compress.groups = 1
    /\ (NumStages(cfg) >= 1 /\ cfg.init_c % cfg.groups # 0
           /\ cfg.block_channels[1] > cfg.init_c
           /\ (FirstFailed \/ HasName(features, StageName(1, 1))))
          => (HasName(features, StageName(1, 1))
                <=> /\ (cfg.block_channels[1] \div 4) % cfg.groups = 0
                    /\ (cfg.block_channels[1] - cfg.init_c) % cfg.groups = 0)
    /\ (HasName(features, StageName(1, 1)) /\ cfg.init_c % cfg.groups # 0)
          => ModuleNamed(StageName(1, 1)).compress.groups = 1

C5_Witness ==
    /\ cfg.init_c % cfg.groups # 0
    /\ HasName(features, StageName(1, 1))
    /\ ModuleNamed(StageName(1, 1)).compress.groups = 1
    /\ ModuleNamed(StageName(1, 1)).compress.in_c = cfg.init_c

\* what the constructor is to append for stage sg (1-based): the name and
\* the flags of each module, in order
StageEntries(c, sg) ==
    <<[name |-> StageName(sg, 1), downsample |-> TRUE, ignore_group |-> sg = 1]>>
    \o [j \in 1..c.block_layers[sg] |->
          [name |-> StageName(sg, j + 1), downsample |-> FALSE,
           ignore_group |-> FALSE]]

RECURSIVE Expected(_, _)
Expected(c, n) ==
    IF n = 0
    THEN <<[name |-> "init", downsample |-> FALSE, ignore_group |-> FALSE]>>
    ELSE Expected(c, n - 1) \o StageEntries(c, n)

RECURSIVE ModuleCount(_, _)
ModuleCount(c, n) ==
    IF n = 0 THEN 1 ELSE ModuleCount(c, n - 1) + 1 + c.block_layers[n]

Profile(fs) ==
    [q \in 1..Len(fs) |->
        [name |-> fs[q].name,
         downsample |-> fs[q].mod.kind = "me" /\ fs[q].mod.downsample,
         ignore_group |-> fs[q].mod.kind = "me" /\ fs[q].mod.args.ignore_group]]

\* C8: after i stages the container holds the stem and, for each stage in
\* order, one downsampling module (ignore_group only in the first stage)
\* followed by block_layers[i] non-downsampling modules; within a stage the
\* modules appended so far are the first of that list; every add_module call
\* used a new name; the built network has 1 + sum (1 + block_layers[i])
\* modules, and forward applies them in the order of construction.
C8_StageStructure ==
    /\ pc = "stage" => Profile(features) = Expected(cfg, i)
    /\ pc = "layers"
          => Profile(features) =
                Expected(cfg, i) \o SubSeq(StageEntries(cfg, i + 1), 1, l + 1)
    /\ Built
          => /\ Profile(features) = Expected(cfg, NumStages(cfg))
             /\ Len(features) = ModuleCount(cfg, NumStages(cfg))
    /\ pc # "new" => added = Names(features)
    /\ \A q, r \in 1..Len(features) :
          features[q].name = features[r].name => q = r
    /\ pc \in {"features", "raised"}
          => applied = SubSeq(Names(features), 1, Len(applied))
    /\ pc = "features" => Len(applied) = k - 1
    /\ pc = "done" => applied = added

C8_Witness ==
    /\ pc = "done"
    /\ NumStages(cfg) >= 2
    /\ cfg.block_layers[2] >= 1
    /\ applied = Names(features)
    /\ Len(features) = ModuleCount(cfg, NumStages(cfg))

\* C9: in every module the gate returned by the sigmoid has the shape of the
\* residual tensor returned by bn_depthwise: out_c \div 4 channels (out_c as
\* declared, before the downsampling reduction) and the spatial size a 3x3
\* window of padding 1 and stride 2 (downsampling) or 1 (otherwise) leaves.
C9_GateShape ==
    /\ \A q \in 1..Len(features) :
          LET m == features[q].mod
          IN  m.kind = "me"
                 => /\ m.depthwise.out_c = m.args.out_c \div 4
                    /\ m.s_evolve.out_c = m.args.out_c \div 4
                    /\ m.bn["bn_depthwise"].nf = m.bn["s_bn_evolve"].nf
                    /\ m.depthwise.stride = (IF m.downsample THEN 2 ELSE 1)
                    /\ m.s_conv.stride = m.depthwise.stride
                    /\ m.s_conv.padding = 1
                    /\ m.depthwise.padding = 1
    /\ MECallReached(AtDepthwiseBN)
          => LET m == ModuleNamed(call.at)
                 st == IF m.downsample THEN 2 ELSE 1
             IN  /\ call.trace[AtDepthwiseBN] =
                       <<call.arg[1], m.args.out_c \div 4,
                         Window(call.arg[3], 3, st, 1),
                         Window(call.arg[4], 3, st, 1)>>
                 /\ Len(call.trace) >= AtSigmoid
                 /\ call.trace[AtSigmoid] = call.trace[AtDepthwiseBN]

C9_Witness ==
    /\ MECallReached(AtSigmoid)
    /\ ModuleNamed(call.at).downsample
    /\ call.arg[3] > call.arg[4]
    /\ call.trace[AtSigmoid] = call.trace[AtDepthwiseBN]
    /\ call.trace[AtSigmoid][3] < call.arg[3]

\* a returned forward call made in inference mode
EvalPass(p) == p.n > 0 /\ ~p.training

\* C6: two returned inference-mode calls that started from the same
\* parameters and running statistics with the same input returned the same
\* value; an inference-mode call ends with the parameters and running
\* statistics it started with, so that a second call right after it, on the
\* same input and parameters, returns the same value.
C6_EvalDeterminism ==
    /\ (EvalPass(prev) /\ EvalPass(last) /\ prev.input = last.input
           /\ prev.params = last.params /\ prev.stats = last.stats)
          => (prev.out = last.out /\ prev.value = last.value)
    /\ \A p \in {prev, last} :
          EvalPass(p) => (p.paramsEnd = p.params /\ p.statsEnd = p.stats)
    /\ (EvalPass(prev) /\ EvalPass(last) /\ last.n = prev.n + 1
           /\ prev.input = last.input /\ prev.params = last.params)
          => (prev.out = last.out /\ prev.value = last.value)

C6_Witness ==
    /\ EvalPass(prev)
    /\ EvalPass(last)
    /\ last.n = prev.n + 1
    /\ prev.input = last.input
    /\ prev.params = last.params
    /\ prev.value = last.value
    /\ Len(last.value) > 3

\* C10: once the network is built no step changes the modules' operators,
\* their names or their order, the pooling or the classifier; a step of a
\* forward call changes neither the parameters nor the mode, changes running
\* statistics only in training mode, and writes in place only to storage
\* allocated inside the submodule call, never to the call's argument
\* (storage 0); running statistics change in no other step.
C10_ForwardFrame ==
    [][ /\ (Built /\ Built')
           => /\ Structure(features') = Structure(features)
              /\ pool' = pool
              /\ classifier' = classifier
              /\ Stats(features') # Stats(features)
                    => (pc = "features" /\ training)
        /\ pc = "features"
           => /\ params' = params
              /\ training' = training
              /\ ~training => Stats(features') = Stats(features)
              /\ 0 \notin call'.written
      ]_vars

C10_Witness ==
    /\ pc = "done"
    /\ prev.n > 0
    /\ prev.training
    /\ prev.statsEnd # prev.stats
    /\ EvalPass(last)
    /\ last.stats = prev.statsEnd
    /\ last.statsEnd = last.stats
    /\ 0 \notin call.written
    /\ Profile(features) = Expected(cfg, NumStages(cfg))

\* C7 as stated: the gate returned by the sigmoid lies strictly between 0 and
\* 1, and the product is no larger in magnitude than the residual element.
C7_GateOpenInterval ==
    /\ elem.at \in {"sigmoid", "imul"}
          => (FLt(FZero, elem.gate) /\ FLt(elem.gate, FOne))
    /\ elem.at = "imul" => FLe(FAbs(elem.prod), FAbs(elem.res))

\* C7 amended: the gate returned by the sigmoid lies between 0 and 1, both
\* included (a large pre-activation rounds to 1, a very negative one to 0),
\* and the product is no larger in magnitude than the residual element.
C7_GateClosedInterval ==
    /\ elem.at \in {"sigmoid", "imul"}
          => (FLe(FZero, elem.gate) /\ FLe(elem.gate, FOne))
    /\ elem.at = "imul" => FLe(FAbs(elem.prod), FAbs(elem.res))

C7_Witness ==
    /\ elem.at = "imul"
    /\ FLt(FZero, elem.gate)
    /\ FLt(elem.gate, FOne)
    /\ FLt(FAbs(elem.prod), FAbs(elem.res))
    /\ elem.prod # FZero

====
